---- MODULE Spec2Model ----
(***************************************************************************)
(* Model of the slide helper proxy (servers/fastapi/slide_helper_api.py)   *)
(* and of the variant generators (servers/fastapi/utils/llm_calls).        *)
(*                                                                         *)
(* The proxy keeps no state of its own: every request reads presentations  *)
(* from the backend, computes a new slide list locally and writes the      *)
(* whole list back.  A handler is cut into steps at its awaits: between    *)
(* two awaits the handler runs without interruption (one asyncio thread),  *)
(* and each backend call is one atomic read or write of the backend.       *)
(***************************************************************************)
EXTENDS Integers, Sequences, FiniteSets, TLC

\* Longest slide sequence a presentation starts with.
MaxLen == 3

\* Slide ids the backend may hold at the start, and one id it never holds.
SlideIds == {"a", "b", "c"}
NoSuchSlide == "zz"

\* GET /presentation/all answers the presentations in this order.
PresList == <<"p1", "p2">>
PresIds == {PresList[i] : i \in DOMAIN PresList}
NoSuchPres == "p0"

\* Requests in flight, and the uuid4 add_slide draws for each (fresh).
Reqs == {1, 2}
NewId(r) == IF r = 1 THEN "n1" ELSE "n2"

\* The integers a caller passes as position / new_position.
Positions == (0 - 2)..MaxLen

VARIABLES
    backend,    \* [PresIds -> Seq([id, index])]: the backend's slide sequences
    backend0,   \* the backend at the start (history)
    pc,         \* [Reqs -> "off" | "idle" | "list" | "scan" | "fetch" | "update" | "done"]
    req,        \* [Reqs -> the request's operation and arguments]
    cursor,     \* [Reqs -> position of the scan loop in PresList]
    target,     \* [Reqs -> the presentation document the handler read]
    payload,    \* [Reqs -> the json body of the PATCH the handler sends]
    resp,       \* [Reqs -> the handler's response; status 0 while running]
    skipped,    \* [Reqs -> presentations whose fetch failed in the scan] (history)
    patches,    \* the PATCH requests the backend received, in order (history)
    gen         \* the variant generator call (see below)

pvars == <<backend, backend0, pc, req, cursor, target, payload, resp, skipped, patches>>
vars == <<backend, backend0, pc, req, cursor, target, payload, resp, skipped, patches, gen>>

----------------------------------------------------------------------------
(* Python list operations, 0-based positions on 1-based sequences.         *)

\* Mutant of ListInsert: a negative i inserts at the head.
ListInsertFromStart(s, i, x) ==
    LET n == Len(s)
        k == IF i < 0 THEN 0 ELSE (IF i > n THEN n ELSE i)
    IN  SubSeq(s, 1, k) \o <<x>> \o SubSeq(s, k + 1, n)

\* list.insert(i, x): a negative i counts from the end, and i is clipped
\* to [0, len].
ListInsert(s, i, x) ==
    LET n == Len(s)
        k == IF i < 0 THEN (IF n + i < 0 THEN 0 ELSE n + i)
             ELSE (IF i > n THEN n ELSE i)
    IN  SubSeq(s, 1, k) \o <<x>> \o SubSeq(s, k + 1, n)

\* Mutant of ListPop: the element stays in the list.
ListPopKeeps(s, i) == s

\* list.pop(i) for 0 <= i < len: the list without its element i.
ListPop(s, i) == SubSeq(s, 1, i) \o SubSeq(s, i + 2, Len(s))

\* Mutant of Reindex: the index fields are left as they are.
ReindexNothing(s) == s

\* for idx, slide in enumerate(slides): slide['index'] = idx
Reindex(s) == [k \in 1..Len(s) |-> [s[k] EXCEPT !.index = k - 1]]

\* The scan "for idx, slide in enumerate(slides): if slide['id'] == x":
\* the 0-based index of the first slide with id x, -1 when there is none.
FirstIndex(s, x) ==
    IF \E k \in 1..Len(s) : s[k].id = x
    THEN (CHOOSE k \in 1..Len(s) :
            /\ s[k].id = x
            /\ \A j \in 1..(k - 1) : s[j].id # x) - 1
    ELSE 0 - 1

Ids(s) == {s[k].id : k \in 1..Len(s)}
IdSeq(s) == [k \in 1..Len(s) |-> s[k].id]
Indexed(s) == \A k \in 1..Len(s) : s[k].index = k - 1
DistinctIds(s) == \A j, k \in 1..Len(s) : s[j].id = s[k].id => j = k

\* The subsequence of s whose elements are not x (relative order kept).
RECURSIVE Without(_, _)
Without(s, x) ==
    IF s = <<>> THEN <<>>
    ELSE IF Head(s) = x THEN Without(Tail(s), x)
    ELSE <<Head(s)>> \o Without(Tail(s), x)

----------------------------------------------------------------------------
(* The local computations of the three mutating handlers.                  *)

\* Mutant of AddSlides: position -1 is handed to list.insert like any other.
AddSlidesNoAppendCase(slides, nid, position) ==
    Reindex(ListInsert(slides, position, [id |-> nid, index |-> position]))

\* add_slide: the append path sets only the new slide's index; the head
\* and middle paths insert and then re-index every slide.
AddSlides(slides, nid, position) ==
    IF position = 0 - 1 \/ position >= Len(slides)
    THEN Append(slides, [id |-> nid, index |-> Len(slides)])
    ELSE IF position = 0
    THEN Reindex(ListInsert(slides, 0, [id |-> nid, index |-> 0]))
    ELSE Reindex(ListInsert(slides, position, [id |-> nid, index |-> position]))

\* Mutant of DeleteSlides: the re-index pass is missing.
DeleteSlidesNoReindex(slides, slide_index) ==
    ListPop(slides, slide_index)

\* delete_slide: drop the element at slide_index, re-index the rest.
DeleteSlides(slides, slide_index) ==
    Reindex(ListPop(slides, slide_index))

\* Mutant of MoveSlides: the target is adjusted for the popped element.
MoveSlidesAdjusted(slides, current_index, new_position) ==
    Reindex(ListInsert(ListPop(slides, current_index),
                       IF new_position > current_index
                       THEN new_position - 1 ELSE new_position,
                       slides[current_index + 1]))

\* move_slide: pop at current_index, insert at new_position, re-index.
MoveSlides(slides, current_index, new_position) ==
    Reindex(ListInsert(ListPop(slides, current_index), new_position,
                       slides[current_index + 1]))

\* Mutant of InvalidPosition: len(slides) itself is accepted.
InvalidPositionOffByOne(slides, new_position) ==
    new_position < 0 \/ new_position > Len(slides)

\* move_slide's range check on new_position.
InvalidPosition(slides, new_position) ==
    new_position < 0 \/ new_position >= Len(slides)

----------------------------------------------------------------------------
(* Responses.                                                              *)

Pending == [status |-> 0]
NoDoc == [id |-> "none", slides |-> <<>>]

\* A presentation document as the backend answers it: the slides and the
\* fields the proxy never looks at.
Document(p, slides) ==
    [id |-> p, slides |-> slides, rest |-> <<"fields of", p>>]

Error(code, text) == [status |-> code, detail |-> text]

SlideNotFound == Error(404, "Slide not found in any presentation")
ListFailed == Error(500, "Failed to fetch presentations")


----------------------------------------------------------------------------
(* Initial states.                                                         *)

\* What the backend may have stored in the index field of its k-th slide:
\* the sequence index, a 1-based index, or 0 everywhere.
Patterns == {"sequential", "one-based", "zero"}
StoredIndex(pat, k) ==
    IF pat = "sequential" THEN k - 1 ELSE IF pat = "one-based" THEN k ELSE 0

InitSeqs(maxlen) ==
    UNION {{[k \in 1..n |-> [id |-> f[k], index |-> StoredIndex(pat, k)]] :
               f \in [1..n -> SlideIds], pat \in Patterns} : n \in 0..maxlen}

\* The request a handler works on: its operation and its arguments (the
\* arguments an operation does not take stay at their "none" values).
Request(op, x, p, n) ==
    [op |-> op, slide_id |-> x, presentation_id |-> p, position |-> n]

NoReq == Request("none", "none", "none", 0)

GenIdle == [pc |-> "off"]

InitRequests(active) ==
    /\ pc = [r \in Reqs |-> IF r \in active THEN "idle" ELSE "off"]
    /\ req = [r \in Reqs |-> NoReq]
    /\ cursor = [r \in Reqs |-> 0]
    /\ target = [r \in Reqs |-> NoDoc]
    /\ payload = [r \in Reqs |-> NoDoc]
    /\ resp = [r \in Reqs |-> Pending]
    /\ skipped = [r \in Reqs |-> {}]
    /\ patches = <<>>

\* One request against any backend content: ids may repeat and the stored
\* index fields need not be sequential (the backend is not assumed to
\* enforce either).  The presentations after the first hold at most one
\* slide.
Init ==
    /\ backend \in [PresIds -> InitSeqs(MaxLen)]
    /\ \A i \in 2..Len(PresList) : backend[PresList[i]] \in InitSeqs(1)
    /\ backend0 = backend
    /\ InitRequests({1})
    /\ gen = GenIdle

----------------------------------------------------------------------------
(* Request arrival: the handler is called with its arguments.              *)

StartGet(r) ==
    /\ pc[r] = "idle"
    /\ \E x \in SlideIds \cup {NoSuchSlide} :
        req' = [req EXCEPT ![r] = Request("get", x, "none", 0)]
    /\ pc' = [pc EXCEPT ![r] = "list"]
    /\ UNCHANGED <<backend, backend0, cursor, target, payload, resp, skipped,
                   patches, gen>>

StartDelete(r) ==
    /\ pc[r] = "idle"
    /\ \E x \in SlideIds \cup {NoSuchSlide} :
        req' = [req EXCEPT ![r] = Request("delete", x, "none", 0)]
    /\ pc' = [pc EXCEPT ![r] = "list"]
    /\ UNCHANGED <<backend, backend0, cursor, target, payload, resp, skipped,
                   patches, gen>>

\* position holds move_slide's new_position.
StartMove(r) ==
    /\ pc[r] = "idle"
    /\ \E x \in SlideIds \cup {NoSuchSlide}, n \in Positions :
        req' = [req EXCEPT ![r] = Request("move", x, "none", n)]
    /\ pc' = [pc EXCEPT ![r] = "list"]
    /\ UNCHANGED <<backend, backend0, cursor, target, payload, resp, skipped,
                   patches, gen>>

StartAdd(r) ==
    /\ pc[r] = "idle"
    /\ \E p \in PresIds \cup {NoSuchPres}, n \in Positions :
        req' = [req EXCEPT ![r] = Request("add", "none", p, n)]
    /\ pc' = [pc EXCEPT ![r] = "fetch"]
    /\ UNCHANGED <<backend, backend0, cursor, target, payload, resp, skipped,
                   patches, gen>>

----------------------------------------------------------------------------
(* The handler ends with a response.                                       *)

Finish(r, response) ==
    /\ resp' = [resp EXCEPT ![r] = response]
    /\ pc' = [pc EXCEPT ![r] = "done"]

\* GET /presentation/all of get_slide_by_id, delete_slide and move_slide:
\* a failure is fatal (500), a success starts the scan.
ListFetch(r) ==
    /\ pc[r] = "list"
    /\ \E ok \in BOOLEAN :
        IF ok
        THEN /\ pc' = [pc EXCEPT ![r] = "scan"]
             /\ cursor' = [cursor EXCEPT ![r] = 1]
             /\ resp' = resp
        ELSE /\ Finish(r, ListFailed)
             /\ cursor' = cursor
    /\ UNCHANGED <<backend, backend0, req, target, payload, skipped, patches, gen>>

\* Mutant of ScanOn: a failed presentation fetch ends the request.
ScanOnFatal(r, failed) ==
    /\ skipped' = [skipped EXCEPT ![r] =
                      IF failed THEN @ \cup {PresList[cursor[r]]} ELSE @]
    /\ IF cursor[r] < Len(PresList) /\ ~failed
       THEN /\ cursor' = [cursor EXCEPT ![r] = @ + 1]
            /\ UNCHANGED <<pc, resp>>
       ELSE /\ Finish(r, IF failed THEN ListFailed ELSE SlideNotFound)
            /\ cursor' = cursor

\* The end of one pass of the scan loop that found nothing (the fetch
\* failed, or the presentation does not hold the slide): on to the next
\* presentation, or 404 after the last one.
ScanOn(r, failed) ==
    /\ skipped' = [skipped EXCEPT ![r] =
                      IF failed THEN @ \cup {PresList[cursor[r]]} ELSE @]
    /\ IF cursor[r] < Len(PresList)
       THEN /\ cursor' = [cursor EXCEPT ![r] = @ + 1]
            /\ UNCHANGED <<pc, resp>>
       ELSE /\ Finish(r, SlideNotFound)
            /\ cursor' = cursor

FoundSlideLast(slides, x) ==
    slides[CHOOSE j \in 1..Len(slides) :
              /\ slides[j].id = x
              /\ \A h \in (j + 1)..Len(slides) : slides[h].id # x]

\* The slide get_slide_by_id answers from a fetched document.
FoundSlide(slides, x) == slides[FirstIndex(slides, x) + 1]

\* get_slide_by_id: one pass of the loop over the presentations.
ScanGet(r) ==
    /\ pc[r] = "scan" /\ req[r].op = "get"
    /\ LET p == PresList[cursor[r]]
           x == req[r].slide_id
       IN  \E ok \in BOOLEAN :
            IF ok /\ FirstIndex(backend[p], x) >= 0
            THEN /\ Finish(r, [status |-> 200, slide |-> FoundSlide(backend[p], x)])
                 /\ UNCHANGED <<cursor, skipped>>
            ELSE ScanOn(r, ~ok)
    /\ UNCHANGED <<backend, backend0, req, target, payload, patches, gen>>

\* delete_slide: one pass of the loop; on a match the handler computes the
\* new list and sends the PATCH.
ScanDelete(r) ==
    /\ pc[r] = "scan" /\ req[r].op = "delete"
    /\ LET p == PresList[cursor[r]]
           x == req[r].slide_id
       IN  \E ok \in BOOLEAN :
            IF ok /\ FirstIndex(backend[p], x) >= 0
            THEN /\ target' = [target EXCEPT ![r] = Document(p, backend[p])]
                 /\ payload' = [payload EXCEPT ![r] =
                        [id |-> p,
                         slides |-> DeleteSlides(backend[p], FirstIndex(backend[p], x))]]
                 /\ pc' = [pc EXCEPT ![r] = "update"]
                 /\ UNCHANGED <<cursor, skipped, resp>>
            ELSE /\ ScanOn(r, ~ok)
                 /\ UNCHANGED <<target, payload>>
    /\ UNCHANGED <<backend, backend0, req, patches, gen>>

AlreadyThere(doc, c) ==
    [status |-> 200,
     message |-> <<"Slide is already at position", c>>,
     presentation_id |-> doc.id,
     current_position |-> c,
     presentation |-> doc]

InvalidMoveAsNotFound == Error(404, "Invalid position")

InvalidMove == Error(400, "Invalid position")

\* Mutant of MoveDecision: no shortcut for the current position.
MoveDecisionNoShortcut(slides, c, n) ==
    IF InvalidPosition(slides, n) THEN "invalid" ELSE "move"

\* What move_slide does with the document it found the slide in, at
\* current_index c: "invalid" (400), "already" (no change) or "move".
MoveDecision(slides, c, n) ==
    IF InvalidPosition(slides, n) THEN "invalid"
    ELSE IF c = n THEN "already"
    ELSE "move"

\* move_slide: one pass of the loop; on a match the range check, the
\* no-op answer or the local move followed by the PATCH.
ScanMove(r) ==
    /\ pc[r] = "scan" /\ req[r].op = "move"
    /\ LET p == PresList[cursor[r]]
           x == req[r].slide_id
           n == req[r].position
           c == FirstIndex(backend[p], x)
           doc == Document(p, backend[p])
       IN  \E ok \in BOOLEAN :
            IF ok /\ c >= 0
            THEN /\ target' = [target EXCEPT ![r] = doc]
                 /\ UNCHANGED <<cursor, skipped>>
                 /\ IF MoveDecision(backend[p], c, n) = "invalid"
                    THEN Finish(r, InvalidMove) /\ payload' = payload
                    ELSE IF MoveDecision(backend[p], c, n) = "already"
                    THEN Finish(r, AlreadyThere(doc, c)) /\ payload' = payload
                    ELSE /\ payload' = [payload EXCEPT ![r] =
                                [id |-> p, slides |-> MoveSlides(backend[p], c, n)]]
                         /\ pc' = [pc EXCEPT ![r] = "update"]
                         /\ resp' = resp
            ELSE /\ ScanOn(r, ~ok)
                 /\ UNCHANGED <<target, payload>>
    /\ UNCHANGED <<backend, backend0, req, patches, gen>>

PresentationNotFound == Error(404, "Presentation not found")

\* add_slide: GET of the presentation (any failure answers 404), then the
\* local insert and the PATCH.
FetchAdd(r) ==
    /\ pc[r] = "fetch" /\ req[r].op = "add"
    /\ LET p == req[r].presentation_id
       IN  \E ok \in BOOLEAN :
            IF ok /\ p \in PresIds
            THEN /\ target' = [target EXCEPT ![r] = Document(p, backend[p])]
                 /\ payload' = [payload EXCEPT ![r] =
                        [id |-> p,
                         slides |-> AddSlides(backend[p], NewId(r), req[r].position)]]
                 /\ pc' = [pc EXCEPT ![r] = "update"]
                 /\ resp' = resp
            ELSE /\ Finish(r, PresentationNotFound)
                 /\ UNCHANGED <<target, payload>>
    /\ UNCHANGED <<backend, backend0, req, cursor, skipped, patches, gen>>


----------------------------------------------------------------------------
(* PATCH /presentation/update: the backend replaces the whole slide list   *)
(* and answers the updated document.  The call has three outcomes: "ok",   *)
(* "rejected" (an error answer, nothing written) and "lost" (written, but  *)
(* the answer times out or cannot be read).                                *)

Outcomes == {"ok", "rejected", "lost"}

\* Mutant of Written: the backend stores the body under the first
\* presentation of the list, whatever id the body names.
WrittenToFirst(body, outcome) ==
    IF outcome = "rejected" THEN backend
    ELSE [backend EXCEPT ![PresList[1]] = body.slides]

\* Mutant of Written: a conditional update, which drops a body computed
\* from a slide list that is no longer the stored one.
WrittenIfCurrent(body, outcome) ==
    IF outcome # "rejected" /\
       \E r \in Reqs : payload[r] = body /\ target[r].slides = backend[body.id]
    THEN [backend EXCEPT ![body.id] = body.slides]
    ELSE backend

Written(body, outcome) ==
    IF outcome = "rejected" THEN backend
    ELSE [backend EXCEPT ![body.id] = body.slides]

\* update_response.json(): the document the backend holds after the write.
UpdatedDoc(r) ==
    Document(payload[r].id, Written(payload[r], "ok")[payload[r].id])

Patch(r, outcome) ==
    /\ backend' = Written(payload[r], outcome)
    /\ patches' = Append(patches,
                    [by |-> r, body |-> payload[r], outcome |-> outcome,
                     answer |-> IF outcome = "ok" THEN UpdatedDoc(r) ELSE NoDoc])

UpdateFailed == Error(500, "Failed to update presentation")

DeletedLocal(x, body, updated) ==
    [status |-> 200,
     message |-> <<"Slide deleted successfully", x>>,
     presentation_id |-> body.id,
     slides_remaining |-> Len(body.slides),
     presentation |-> body]

Deleted(x, body, updated) ==
    [status |-> 200,
     message |-> <<"Slide deleted successfully", x>>,
     presentation_id |-> body.id,
     slides_remaining |-> Len(body.slides),
     presentation |-> updated]

\* new_slide is the dict that was put into the list: the re-index pass of
\* the head and middle paths also sets its index.
NewSlide(slides, nid) == slides[FirstIndex(slides, nid) + 1]

Added(nid, body, updated) ==
    [status |-> 200,
     message |-> <<"Slide added successfully at position", NewSlide(body.slides, nid).index>>,
     slide |-> NewSlide(body.slides, nid),
     presentation_id |-> body.id,
     total_slides |-> Len(body.slides),
     presentation |-> updated]

Moved(x, c, n, body, updated) ==
    [status |-> 200,
     message |-> <<"Slide moved from position", c, "to", n>>,
     slide_id |-> x,
     presentation_id |-> body.id,
     old_position |-> c,
     new_position |-> n,
     total_slides |-> Len(body.slides),
     presentation |-> updated]

\* Mutant of AfterPatch: the answer of the PATCH is not looked at.
AfterPatchUnchecked(outcome, success) == success

\* What a mutating handler answers after its PATCH.
AfterPatch(outcome, success) ==
    IF outcome = "ok" THEN success ELSE UpdateFailed

UpdateDelete(r) ==
    /\ pc[r] = "update" /\ req[r].op = "delete"
    /\ \E outcome \in Outcomes :
        /\ Patch(r, outcome)
        /\ Finish(r, AfterPatch(outcome,
                    Deleted(req[r].slide_id, payload[r], UpdatedDoc(r))))
    /\ UNCHANGED <<backend0, req, cursor, target, payload, skipped, gen>>

UpdateAdd(r) ==
    /\ pc[r] = "update" /\ req[r].op = "add"
    /\ \E outcome \in Outcomes :
        /\ Patch(r, outcome)
        /\ Finish(r, AfterPatch(outcome,
                    Added(NewId(r), payload[r], UpdatedDoc(r))))
    /\ UNCHANGED <<backend0, req, cursor, target, payload, skipped, gen>>

UpdateMove(r) ==
    /\ pc[r] = "update" /\ req[r].op = "move"
    /\ \E outcome \in Outcomes :
        /\ Patch(r, outcome)
        /\ Finish(r, AfterPatch(outcome,
                    Moved(req[r].slide_id,
                          FirstIndex(target[r].slides, req[r].slide_id),
                          req[r].position, payload[r], UpdatedDoc(r))))
    /\ UNCHANGED <<backend0, req, cursor, target, payload, skipped, gen>>

----------------------------------------------------------------------------

ProxyNext ==
    \E r \in Reqs :
        \/ StartGet(r)
        \/ StartDelete(r)
        \/ StartMove(r)
        \/ StartAdd(r)
        \/ ListFetch(r)
        \/ ScanGet(r)
        \/ ScanDelete(r)
        \/ ScanMove(r)
        \/ FetchAdd(r)
        \/ UpdateDelete(r)
        \/ UpdateAdd(r)
        \/ UpdateMove(r)

Next == ProxyNext

Spec == Init /\ [][Next]_vars


----------------------------------------------------------------------------
(* Properties of the proxy.  S is the slide sequence a handler read        *)
(* (target[r].slides) and S' the sequence it sends to the backend          *)
(* (payload[r].slides).                                                    *)

\* Request r is an `op` whose handler has computed and sent its PATCH body.
Sent(r, op) == req[r].op = op /\ payload[r].id # "none"

\* Request r is a move_slide whose scan found the slide.
Found(r, op) == req[r].op = op /\ target[r].id # "none"

PatchesBy(r) == {i \in 1..Len(patches) : patches[i].by = r}

\* C1: after add_slide inserts a new slide, whatever the stored index
\* fields and the position, S' has one slide more than S and every index
\* field of S' equals its sequence index.
C1_AddReindexesAlways ==
    \A r \in Reqs : Sent(r, "add") =>
        /\ Len(payload[r].slides) = Len(target[r].slides) + 1
        /\ Indexed(payload[r].slides)

\* C2: delete_slide(x) on a sequence S of distinct ids that holds x sends
\* a sequence of length len(S)-1 without x, the other slides in their
\* original order, with index fields 0..len(S)-2.
C2_DeleteResult ==
    \A r \in Reqs : Found(r, "delete") /\ DistinctIds(target[r].slides) =>
        LET S == target[r].slides
            T == payload[r].slides
            x == req[r].slide_id
        IN  /\ payload[r].id = target[r].id
            /\ Len(T) = Len(S) - 1
            /\ x \notin Ids(T)
            /\ IdSeq(T) = Without(IdSeq(S), x)
            /\ Indexed(T)

C2_Witness ==
    /\ Sent(1, "delete") /\ pc[1] = "done" /\ resp[1].status = 200
    /\ DistinctIds(target[1].slides) /\ ~Indexed(target[1].slides)
    /\ Len(target[1].slides) = 3
    /\ FirstIndex(target[1].slides, req[1].slide_id) = 1
    /\ backend[target[1].id] = payload[1].slides

\* C3: move_slide(x, n) with x at index c, 0 <= n < len(S) and n # c sends
\* a sequence with x at index n, index fields 0..len(S)-1, the same ids
\* and the other slides in their original relative order.
C3_MoveResult ==
    \A r \in Reqs :
        LET S == target[r].slides
            T == payload[r].slides
            x == req[r].slide_id
            n == req[r].position
            c == FirstIndex(S, x)
        IN  Found(r, "move") /\ 0 <= n /\ n < Len(S) /\ n # c =>
                /\ payload[r].id = target[r].id
                /\ Len(T) = Len(S)
                /\ T[n + 1].id = x
                /\ Indexed(T)
                /\ Ids(T) = Ids(S)
                /\ Without(IdSeq(T), x) = Without(IdSeq(S), x)

C3_Witness ==
    /\ Sent(1, "move") /\ pc[1] = "done" /\ resp[1].status = 200
    /\ IdSeq(target[1].slides) = <<"a", "b", "c">>
    /\ req[1].slide_id = "a" /\ req[1].position = 2
    /\ IdSeq(backend[target[1].id]) = <<"b", "c", "a">>
    /\ ~Indexed(target[1].slides)

\* C4: move_slide to the slide's current index succeeds, returns the
\* presentation as read from the backend and sends no PATCH; its response
\* carries the "already at position" message and current_position, not
\* old_position / new_position.
C4_MoveToCurrentIsNoOp ==
    \A r \in Reqs :
        LET S == target[r].slides
            c == FirstIndex(S, req[r].slide_id)
        IN  Found(r, "move") /\ req[r].position = c =>
                /\ pc[r] = "done"
                /\ resp[r].status = 200
                /\ resp[r].presentation = target[r]
                /\ resp[r].presentation.slides = backend0[target[r].id]
                /\ resp[r].message[1] = "Slide is already at position"
                /\ resp[r].current_position = c
                /\ {"old_position", "new_position"} \cap DOMAIN resp[r] = {}
                /\ PatchesBy(r) = {}
                /\ backend = backend0

C4_Witness ==
    /\ Found(1, "move") /\ pc[1] = "done"
    /\ req[1].position = 1
    /\ FirstIndex(target[1].slides, req[1].slide_id) = 1
    /\ ~Indexed(target[1].slides)
    /\ resp[1].status = 200

\* C5: move_slide of a found slide with new_position < 0 or
\* new_position >= len(slides) ends with 400, sends no PATCH and leaves
\* the backend unchanged.
C5_InvalidMoveRejected ==
    \A r \in Reqs :
        LET S == target[r].slides
            n == req[r].position
        IN  Found(r, "move") /\ (n < 0 \/ n >= Len(S)) =>
                /\ pc[r] = "done"
                /\ resp[r].status = 400
                /\ PatchesBy(r) = {}
                /\ payload[r] = NoDoc
                /\ backend = backend0

C5_Witness ==
    /\ Found(1, "move") /\ pc[1] = "done" /\ resp[1].status = 400
    /\ Len(target[1].slides) = 3 /\ req[1].position = 3


\* No presentation of the backend holds slide id x.
Absent(x) == \A p \in PresIds : x \notin Ids(backend[p])

\* C6: get_slide_by_id for a slide id that no presentation holds ends with
\* 404 once the list fetch has succeeded, whichever presentation fetches
\* fail: a failed fetch is skipped and the scan goes on to the last
\* presentation.
C6_GetAbsentIsNotFound ==
    \A r \in Reqs :
        req[r].op = "get" /\ Absent(req[r].slide_id) /\ cursor[r] >= 1 =>
            /\ pc[r] \in {"scan", "done"}
            /\ pc[r] = "scan" => resp[r] = Pending
            /\ pc[r] = "done" =>
                /\ resp[r] = SlideNotFound
                /\ cursor[r] = Len(PresList)
            /\ skipped[r] \subseteq {PresList[i] : i \in 1..cursor[r]}

C6_Witness ==
    /\ req[1].op = "get" /\ Absent(req[1].slide_id) /\ pc[1] = "done"
    /\ skipped[1] = {PresList[1]}
    /\ resp[1].status = 404

\* C7: add_slide puts the new slide last when position = -1 or
\* position >= len(S) (with index field len(S)), first when position = 0,
\* at index position when 0 < position < len(S); the slides of S keep their
\* relative order.
C7_AddPlacement ==
    \A r \in Reqs : Sent(r, "add") =>
        LET S == target[r].slides
            T == payload[r].slides
            n == Len(S)
            pos == req[r].position
        IN  /\ Len(T) = n + 1
            /\ Without(IdSeq(T), NewId(r)) = IdSeq(S)
            /\ (pos = 0 - 1 \/ pos >= n) =>
                    T[n + 1] = [id |-> NewId(r), index |-> n]
            /\ pos = 0 => T[1].id = NewId(r)
            /\ (0 < pos /\ pos < n) => T[pos + 1].id = NewId(r)

C7_Witness ==
    /\ Sent(1, "add") /\ pc[1] = "done" /\ resp[1].status = 200
    /\ Len(target[1].slides) = 3 /\ req[1].position = 0 - 1
    /\ backend[target[1].id][4] = [id |-> NewId(1), index |-> 3]

Mutating == {"add", "delete", "move"}

\* C9: when the PATCH of add_slide, delete_slide or move_slide fails, the
\* handler ends with 500 and never with a success response; a success
\* response after a computed change rests on a PATCH that succeeded.
C9_FailedUpdateIs500 ==
    \A r \in Reqs : req[r].op \in Mutating =>
        /\ \A i \in PatchesBy(r) :
              /\ pc[r] = "done"
              /\ patches[i].outcome # "ok" => resp[r] = UpdateFailed
              /\ patches[i].outcome = "ok" => resp[r].status = 200
        /\ (pc[r] = "done" /\ resp[r].status = 200 /\ payload[r] # NoDoc) =>
              \E i \in PatchesBy(r) : patches[i].outcome = "ok"

C9_Witness ==
    /\ \E op \in Mutating : Sent(1, op)
    /\ Len(patches) = 1 /\ patches[1].outcome = "lost"
    /\ backend # backend0
    /\ resp[1].status = 500

\* C18: get_slide_by_id answers a slide exactly when a presentation whose
\* fetch succeeded holds a slide with the requested id; the slide is the
\* first match in scan order (presentations in the order of the list,
\* slides in sequence order), and no presentation after the matching one
\* is fetched.
C18_FirstMatchInScanOrder ==
    \A r \in Reqs : (pc[r] = "done" /\ req[r].op = "get") =>
        LET x == req[r].slide_id
            fetched == {i \in 1..cursor[r] : PresList[i] \notin skipped[r]}
            Holds(i) == \E j \in 1..Len(backend[PresList[i]]) :
                            backend[PresList[i]][j].id = x
        IN  /\ resp[r].status = 200 <=> \E i \in fetched : Holds(i)
            /\ resp[r].status = 200 =>
                LET m == cursor[r]
                    s == backend[PresList[m]]
                IN  /\ m \in fetched /\ Holds(m)
                    /\ \A i \in fetched : i < m => ~Holds(i)
                    /\ \E j \in 1..Len(s) :
                        /\ s[j].id = x /\ resp[r].slide = s[j]
                        /\ \A h \in 1..(j - 1) : s[h].id # x

C18_Witness ==
    \E r \in Reqs :
        /\ pc[r] = "done" /\ req[r].op = "get" /\ resp[r].status = 200
        /\ cursor[r] = 2 /\ skipped[r] = {PresList[1]}
        /\ \E j \in 1..Len(backend[PresList[1]]) :
            backend[PresList[1]][j].id = req[r].slide_id

\* C20: an add_slide, delete_slide or move_slide call that changes the
\* slide sequence sends exactly one update request; its body holds the
\* presentation id and the entire locally computed slide sequence, and the
\* presentation of the success response is the document the backend
\* answered to that update, not the locally computed sequence.
C20_OneFullUpdate ==
    \A r \in Reqs :
        /\ Cardinality(PatchesBy(r)) <= 1
        /\ (pc[r] = "done" /\ payload[r] # NoDoc) =>
            /\ Cardinality(PatchesBy(r)) = 1
            /\ \A i \in PatchesBy(r) :
                /\ patches[i].body =
                       [id |-> target[r].id, slides |-> payload[r].slides]
                /\ Len(patches[i].body.slides) =
                       Len(target[r].slides)
                         + (IF req[r].op = "add" THEN 1
                            ELSE IF req[r].op = "delete" THEN 0 - 1 ELSE 0)
                /\ resp[r].status = 200 =>
                    /\ patches[i].outcome = "ok"
                    /\ resp[r].presentation = patches[i].answer
                    /\ resp[r].presentation # patches[i].body

C20_Witness ==
    \E r \in Reqs :
        /\ pc[r] = "done" /\ req[r].op = "delete" /\ resp[r].status = 200
        /\ Len(target[r].slides) = 3
        /\ Cardinality(PatchesBy(r)) = 1
        /\ \A i \in PatchesBy(r) :
            /\ Len(patches[i].body.slides) = 2
            /\ resp[r].presentation = patches[i].answer

\* C21: move_slide checks existence before range: when no fetched
\* presentation holds the slide the answer is 404 for every new_position,
\* also one out of range; 400 is answered only when the slide was found
\* and new_position is outside [0, len(slides) - 1], len(slides) being the
\* length of the presentation the slide was found in.
C21_ExistenceBeforeRange ==
    \A r \in Reqs :
        (pc[r] = "done" /\ req[r].op = "move" /\ cursor[r] >= 1) =>
            LET x == req[r].slide_id
                n == req[r].position
                holders == {i \in 1..cursor[r] :
                              /\ PresList[i] \notin skipped[r]
                              /\ \E j \in 1..Len(backend0[PresList[i]]) :
                                    backend0[PresList[i]][j].id = x}
            IN  /\ holders = {} => resp[r].status = 404
                /\ resp[r].status = 404 => holders = {}
                /\ resp[r].status = 400 <=>
                    /\ holders # {}
                    /\ \A i \in holders :
                        (\A h \in holders : i <= h) =>
                            (n < 0 \/ n >= Len(backend0[PresList[i]]))

C21_Witness ==
    \E r \in Reqs :
        /\ pc[r] = "done" /\ req[r].op = "move" /\ resp[r].status = 404
        /\ req[r].position = MaxLen

\* C22: a backend call whose failure ends the operation is answered with
\* 500: so the list fetch of get_slide_by_id, delete_slide and move_slide,
\* and the presentation fetch of add_slide; 404 is answered only when the
\* slide or the presentation is absent.
C22_FatalFailureIs500 ==
    \A r \in Reqs : pc[r] = "done" =>
        /\ (req[r].op \in {"get", "delete", "move"} /\ cursor[r] = 0) =>
            resp[r].status = 500
        /\ (req[r].op = "add" /\ resp[r].status = 404) =>
            req[r].presentation_id \notin PresIds
        /\ (req[r].op \in {"get", "delete", "move"}
                /\ resp[r].status = 404) =>
            \A i \in 1..cursor[r] :
                PresList[i] \notin skipped[r] =>
                    req[r].slide_id \notin Ids(backend0[PresList[i]])


\* C30: add_slide with a position below -1 is not rejected and does not
\* append: on a list of length n the new slide lands at index
\* max(0, n + position); the list sent has length n + 1, the old slides in
\* their order and every index field equal to its sequence index; the
\* success message and the returned slide carry that final index and not
\* the negative position.
C30_NegativePositionInserts ==
    \A r \in Reqs : (req[r].op = "add" /\ req[r].position < 0 - 1) =>
        LET S == target[r].slides
            T == payload[r].slides
            n == Len(S)
            k == IF n + req[r].position < 0 THEN 0 ELSE n + req[r].position
        IN  /\ pc[r] = "done" => resp[r].status \in {200, 404, 500}
            /\ (pc[r] = "done" /\ target[r].id # "none") => PatchesBy(r) # {}
            /\ Sent(r, "add") =>
                /\ Len(T) = n + 1
                /\ T[k + 1].id = NewId(r)
                /\ n >= 1 => T[n + 1].id # NewId(r)
                /\ Without(IdSeq(T), NewId(r)) = IdSeq(S)
                /\ Indexed(T)
                /\ (pc[r] = "done" /\ resp[r].status = 200) =>
                    /\ resp[r].slide = [id |-> NewId(r), index |-> k]
                    /\ resp[r].message =
                          <<"Slide added successfully at position", k>>
                    /\ resp[r].message[2] # req[r].position
                    /\ resp[r].total_slides = n + 1

C30_Witness ==
    /\ Sent(1, "add") /\ pc[1] = "done" /\ resp[1].status = 200
    /\ req[1].position = 0 - 2
    /\ Len(target[1].slides) = 3
    /\ ~Indexed(target[1].slides)
    /\ resp[1].slide.index = 1
    /\ backend[target[1].id][2].id = NewId(1)

\* The positions in list order of the presentations that hold slide id x,
\* and of those among them that request r fetched successfully.
Holders(x) ==
    {i \in 1..Len(PresList) : x \in Ids(backend0[PresList[i]])}

FetchedHolders(r) ==
    {i \in Holders(req[r].slide_id) :
        i <= cursor[r] /\ PresList[i] \notin skipped[r]}

Least(S) == CHOOSE i \in S : \A j \in S : i <= j

\* What request r may have sent and changed when the presentation it is to
\* write is the first of `holders`.
FrameOf(r, holders) ==
    LET quiet == PatchesBy(r) = {} /\ backend = backend0
        scans == req[r].op \in {"delete", "move"}
    IN  /\ req[r].op = "get" => quiet
        /\ (pc[r] = "done" /\ scans /\ resp[r].status \in {404, 400}) => quiet
        /\ (pc[r] = "done" /\ Found(r, "move") /\ resp[r].status = 200
              /\ FirstIndex(target[r].slides, req[r].slide_id) = req[r].position)
             => quiet
        /\ (pc[r] = "done" /\ scans /\ resp[r].status = 200) =>
              /\ holders # {}
              /\ \A i \in PatchesBy(r) :
                    patches[i].body.id = PresList[Least(holders)]
              /\ \A p \in PresIds \ {PresList[Least(holders)]} :
                    backend[p] = backend0[p]

\* C29 as stated: get_slide_by_id sends no update; a delete or move that
\* ends in 404 or 400, and a move to the current index, send none either;
\* a successful delete or move writes only the first presentation in list
\* order that contains the slide id and leaves every other one unchanged.
C29_FrameFirstHolder ==
    \A r \in Reqs : FrameOf(r, Holders(req[r].slide_id))

\* C29 amended: the same, with the presentation written being the first in
\* list order whose fetch succeeded and that contains the slide id.
C29_FrameFirstFetchedHolder ==
    \A r \in Reqs : FrameOf(r, FetchedHolders(r))

\* A delete answered with success that skipped the first presentation,
\* which holds the id, and removed the slide from the second.
C29_Witness ==
    \E r \in Reqs :
        /\ pc[r] = "done" /\ req[r].op = "delete" /\ resp[r].status = 200
        /\ skipped[r] = {PresList[1]}
        /\ Holders(req[r].slide_id) = {1, 2}
        /\ backend[PresList[1]] = backend0[PresList[1]]
        /\ backend[PresList[2]] = <<>>
        /\ backend0[PresList[2]] # <<>>

----------------------------------------------------------------------------
(* Two requests at once, against a backend whose presentations hold        *)
(* distinct ids and sequential index fields.  Distinct ids are             *)
(* interchangeable, so the first presentation starts with a prefix of      *)
(* a, b, c; the others are empty or hold the one slide c (which the first  *)
(* presentation may or may not hold too).                                  *)

Canon == <<"a", "b", "c">>

Prefix(n) == [k \in 1..n |-> [id |-> Canon[k], index |-> k - 1]]

RaceSeqs(maxlen) ==
    {Prefix(n) : n \in 0..(IF maxlen < Len(Canon) THEN maxlen ELSE Len(Canon))}

InitRace ==
    /\ backend \in [PresIds -> RaceSeqs(MaxLen) \cup {<<[id |-> "c", index |-> 0]>>}]
    /\ backend[PresList[1]] \in RaceSeqs(MaxLen)
    /\ \A i \in 2..Len(PresList) :
          backend[PresList[i]] \in {<<>>, <<[id |-> "c", index |-> 0]>>}
    /\ backend0 = backend
    /\ InitRequests(Reqs)
    /\ gen = GenIdle

SpecRace == InitRace /\ [][Next]_vars

\* The position of request r's PATCH in the order the backend applied them.
PatchOf(r) == CHOOSE i \in PatchesBy(r) : TRUE

\* Requests r1 and r2 both changed presentation p, both from the slide list
\* the backend started with (each read before the other wrote), both were
\* answered with success, and r1's PATCH was applied first.
BothFromStart(r1, r2, p) ==
    /\ r1 # r2
    /\ req[r1].op \in Mutating /\ req[r2].op \in Mutating
    /\ payload[r1].id = p /\ payload[r2].id = p
    /\ target[r1].slides = backend0[p] /\ target[r2].slides = backend0[p]
    /\ pc[r1] = "done" /\ resp[r1].status = 200
    /\ pc[r2] = "done" /\ resp[r2].status = 200
    /\ PatchOf(r1) < PatchOf(r2)

\* The slide list `now` is `before` changed by request r alone.
OnlyEffectOf(r, before, now) ==
    LET x == req[r].slide_id
    IN  /\ req[r].op = "add" =>
            /\ Len(now) = Len(before) + 1
            /\ Without(IdSeq(now), NewId(r)) = IdSeq(before)
        /\ req[r].op = "delete" =>
            /\ Len(now) = Len(before) - 1
            /\ IdSeq(now) = Without(IdSeq(before), x)
        /\ req[r].op = "move" =>
            /\ Len(now) = Len(before)
            /\ now[req[r].position + 1].id = x
            /\ Without(IdSeq(now), x) = Without(IdSeq(before), x)

\* C8: two mutating requests on one presentation race.  Whenever both read
\* the slide list before either wrote and both are answered with success,
\* the backend ends with the later PATCH's list, which is the start list
\* changed by the later request alone: the earlier request's change is
\* lost.  No step of the handlers excludes this interleaving (C8_Witness).
C8_LastWriteWins ==
    \A r1, r2 \in Reqs : \A p \in PresIds :
        BothFromStart(r1, r2, p) =>
            /\ backend[p] = payload[r2].slides
            /\ OnlyEffectOf(r2, backend0[p], backend[p])
            /\ req[r1].op = "add" => NewId(r1) \notin Ids(backend[p])

C8_Witness ==
    /\ BothFromStart(1, 2, "p1")
    /\ req[1].op = "add" /\ req[2].op = "delete"
    /\ Len(backend0["p1"]) = 3
    /\ Len(backend["p1"]) = 2
    /\ NewId(1) \notin Ids(backend["p1"])

\* Request r has sent its PATCH and the backend stored its body.
Stored(r) ==
    \E i \in PatchesBy(r) : patches[i].outcome # "rejected"

\* C27: from a backend in which every slide's index field is its sequence
\* index, every backend state reached by add, delete and move requests in
\* any interleaving has the same property in every presentation; so has
\* every slide list a handler has read and every body it has computed.
C27_IndexFieldsStaySequential ==
    /\ \A p \in PresIds : Indexed(backend[p])
    /\ \A r \in Reqs :
          /\ target[r].id # "none" => Indexed(target[r].slides)
          /\ payload[r].id # "none" => Indexed(payload[r].slides)
    /\ \A i \in 1..Len(patches) : Indexed(patches[i].body.slides)

\* An add in the middle and a move on the same presentation, the move
\* computed from the list the add had written, the add answered with an
\* error although its body was stored.
C27_Witness ==
    /\ pc[1] = "done" /\ pc[2] = "done"
    /\ req[1].op = "add" /\ req[1].position = 1 /\ req[2].op = "move"
    /\ payload[1].id = "p1" /\ payload[2].id = "p1"
    /\ Stored(1) /\ Stored(2)
    /\ resp[1].status = 500 /\ resp[2].status = 200
    /\ target[2].slides = payload[1].slides
    /\ Len(backend["p1"]) = 3
    /\ backend["p1"] = payload[2].slides

\* C28: from a backend whose presentations hold pairwise distinct slide
\* ids, with the ids add_slide generates different from every stored id
\* and from each other, no slide list read, computed, sent or stored in any
\* interleaving of add, delete and move requests holds an id twice.
C28_IdsStayDistinct ==
    /\ \A p \in PresIds : DistinctIds(backend[p])
    /\ \A r \in Reqs :
          /\ target[r].id # "none" => DistinctIds(target[r].slides)
          /\ payload[r].id # "none" => DistinctIds(payload[r].slides)
    /\ \A i \in 1..Len(patches) : DistinctIds(patches[i].body.slides)

\* Two moves of the same slide of one presentation, both computed from the
\* start list and both stored.
C28_Witness ==
    /\ pc[1] = "done" /\ pc[2] = "done"
    /\ req[1].op = "move" /\ req[2].op = "move"
    /\ req[1].slide_id = req[2].slide_id
    /\ req[1].position # req[2].position
    /\ payload[1].id = "p1" /\ payload[2].id = "p1"
    /\ target[1].slides = backend0["p1"] /\ target[2].slides = backend0["p1"]
    /\ Stored(1) /\ Stored(2)
    /\ Len(backend["p1"]) = 3
    /\ backend["p1"] # backend0["p1"]


----------------------------------------------------------------------------
(* The variant generators: generate_text_variants and                      *)
(* generate_layout_variants.  gen is one call: its arguments, the clamped  *)
(* count, the user prompt it builds, and its result.  A call is cut at     *)
(* its one await, the structured-generation call.                          *)

\* Largest variant_count a caller asks for, and the most variants a model
\* response holds.
MaxCount == 7
MaxVariants == 6

\* The upper ends of the two clamps, and the length limits of TextVariants.
TextMax == 5
LayoutMax == 3
TextMinLength == 1
TextMaxLength == 5

Counts == (0 - 2)..MaxCount
BlockTypes == {"grid-container", "column", "list-container", "list-item", "other"}
Scopes == {"block", "slide"}
Widths == {100, 299, 300, 450, 599, 600, 800}

Min(a, b) == IF a < b THEN a ELSE b
Max(a, b) == IF a > b THEN a ELSE b

\* Mutant of Clamp: only the upper end is enforced.
ClampUpperOnly(n, hi) == Min(n, hi)

\* variant_count = max(1, min(variant_count, hi))
Clamp(n, hi) == Max(1, Min(n, hi))

\* generate_text_variants' get_user_prompt: "Generate {variant_count}
\* alternative versions of the above text."
TextUserPrompt(variant_count) ==
    [template |-> "text", count |-> variant_count]

\* get_slide_transformation_prompt: the count is written twice, and
\* Layout C depends on it.
SlideTransformationPrompt(variant_count) ==
    [template |-> "slide",
     count |-> variant_count,
     plural |-> variant_count > 1,
     generate |-> variant_count,
     layout_c |-> IF variant_count >= 3
                  THEN "Your creative layout"
                  ELSE "Image right, title top-left, content 2-column grid"]

\* The layout_suggestions table of get_user_prompt and its default entry
\* (each suggestion named by its opening words).
LayoutSuggestions(block_type) ==
    CASE block_type = "grid-container" ->
            <<"Equal grid with balanced spacing",
              "Hero grid: First item spans 2x2",
              "Creative beautiful layout: golden ratio">>
      [] block_type = "column" ->
            <<"Generous vertical spacing with rhythmic gaps",
              "Compact efficient stack with tight spacing",
              "Creative beautiful layout: dramatic margins">>
      [] block_type = "list-container" ->
            <<"Generous vertical list with breathing room",
              "Balanced 2-column grid if 4-6 items",
              "Creative beautiful layout: timeline OR masonry OR bento">>
      [] block_type = "list-item" ->
            <<"Horizontal inline with icon left",
              "Vertical stack with centered icon",
              "Creative beautiful layout: icon size, alignment, padding">>
      [] OTHER ->
            <<"Improved spacing and visual hierarchy",
              "Alternative column arrangement",
              "FREESTYLE BEAUTIFUL">>

SuggestionsFirst(block_type, available_width, variant_count) ==
    LET all == LayoutSuggestions(block_type)
    IN  IF variant_count = 1 THEN <<all[1]>> ELSE all

\* The suggestions get_user_prompt reads out of the table: it does so
\* before the table's list-container entry is adjusted to available_width,
\* so the adjustment never reaches them.  One variant takes the third.
Suggestions(block_type, available_width, variant_count) ==
    LET all == LayoutSuggestions(block_type)
    IN  IF variant_count = 1 /\ Len(all) >= 3 THEN <<all[3]>> ELSE all

\* The list-container entry get_user_prompt stores back into the table for
\* narrow blocks.  The assignment comes after the suggestions were read and
\* the table is not read again, so the prompt never shows these.
AdjustedListSuggestions(available_width) ==
    IF available_width < 300
    THEN <<"Vertical list with generous spacing",
           "Compact vertical list",
           "Vertical list with dividers between items">>
    ELSE IF available_width < 600
    THEN <<"Vertical list with generous spacing",
           "2-column grid layout",
           "Vertical list with alternating item styles">>
    ELSE LayoutSuggestions("list-container")

\* The numbered "Design Direction" lines: one per variant.
Directions(suggestions, variant_count) ==
    [i \in 1..variant_count |->
        IF i <= Len(suggestions) THEN suggestions[i]
        ELSE "Your creative alternative - surprise us!"]

\* get_user_prompt (the block prompt).
BlockUserPrompt(block_type, available_width, variant_count) ==
    [template |-> "block",
     count |-> variant_count,
     plural |-> variant_count > 1,
     max_columns |-> Min(3, available_width \div 150),
     directions |-> Directions(Suggestions(block_type, available_width, variant_count),
                               variant_count),
     examples |-> block_type = "list-container"]

GenStart == [pc |-> "idle"]

\* The variants of a model response, named 1..k in the response's order.
Variants(k) == [i \in 1..k |-> i]

\* What the structured-generation call gives back: it raises, or it returns
\* a dict that does not fit the response model, or a dict with k variants.
Replies ==
    {[kind |-> "raise", k |-> 0], [kind |-> "malformed", k |-> 0]}
        \cup {[kind |-> "variants", k |-> k] : k \in 0..MaxVariants}

\* str(e) of the exception a reply ends in.
ErrorOf(reply) ==
    IF reply.kind = "raise" THEN "generation error" ELSE "validation error"

GenFailedGeneric(what, cause) ==
    [status |-> 500, detail |-> <<what, "internal error">>]

\* HTTPException(500, f"Failed to generate ... variants: {str(e)}")
GenFailed(what, cause) == [status |-> 500, detail |-> <<what, cause>>]

InitGen ==
    /\ backend = [p \in PresIds |-> <<>>]
    /\ backend0 = backend
    /\ InitRequests({})
    /\ gen = GenStart

\* generate_text_variants up to the structured-generation call.
CallText ==
    /\ gen.pc = "idle"
    /\ \E n \in Counts :
        gen' = [pc |-> "llm", kind |-> "text", requested |-> n,
                variant_count |-> Clamp(n, TextMax),
                prompt |-> TextUserPrompt(Clamp(n, TextMax))]
    /\ UNCHANGED pvars

\* generate_layout_variants (USE_STATIC_VARIANTS is False) up to the
\* structured-generation call.
CallLayout ==
    /\ gen.pc = "idle"
    /\ \E n \in Counts, scope \in Scopes, bt \in BlockTypes, w \in Widths :
        gen' = [pc |-> "llm", kind |-> "layout", requested |-> n,
                variant_count |-> Clamp(n, LayoutMax),
                scope |-> scope, block_type |-> bt, available_width |-> w,
                prompt |-> IF scope = "slide"
                           THEN SlideTransformationPrompt(Clamp(n, LayoutMax))
                           ELSE BlockUserPrompt(bt, w, Clamp(n, LayoutMax))]
    /\ UNCHANGED pvars

\* TextVariants(**response_dict): the list must hold 1 to 5 strings.
TextValidNoMax(k) == TextMinLength <= k

TextValid(k) == TextMinLength <= k /\ k <= TextMaxLength

\* generate_text_variants after the call: any exception is answered with
\* 500; a valid response is returned as it is.
TextResult(reply) ==
    IF reply.kind = "variants" /\ TextValid(reply.k)
    THEN [status |-> 200, variants |-> Variants(reply.k)]
    ELSE GenFailed("Failed to generate text variants", ErrorOf(reply))

LayoutResultAll(reply, variant_count) ==
    IF reply.kind = "variants"
    THEN [status |-> 200, variants |-> Variants(reply.k)]
    ELSE GenFailed("Failed to generate layout variants", ErrorOf(reply))

\* generate_layout_variants after the call: response.variants[:variant_count]
LayoutResult(reply, variant_count) ==
    IF reply.kind = "variants"
    THEN [status |-> 200,
          variants |-> SubSeq(Variants(reply.k), 1,
                              Min(reply.k, variant_count))]
    ELSE GenFailed("Failed to generate layout variants", ErrorOf(reply))

RespondText ==
    /\ gen.pc = "llm" /\ gen.kind = "text"
    /\ \E reply \in Replies :
        gen' = [gen EXCEPT !.pc = "done"] @@
               [response |-> reply, result |-> TextResult(reply)]
    /\ UNCHANGED pvars

RespondLayout ==
    /\ gen.pc = "llm" /\ gen.kind = "layout"
    /\ \E reply \in Replies :
        gen' = [gen EXCEPT !.pc = "done"] @@
               [response |-> reply,
                result |-> LayoutResult(reply, gen.variant_count)]
    /\ UNCHANGED pvars

GenNext == CallText \/ CallLayout \/ RespondText \/ RespondLayout

SpecVariants == InitGen /\ [][GenNext]_vars

\* C10: before the prompt is built the requested count n is clamped, to
\* [1, 5] by generate_text_variants (7 becomes 5, 0 and negative counts
\* become 1) and to [1, 3] by generate_layout_variants; the prompt carries
\* the clamped count.
C10_CountClamped ==
    gen.pc \in {"llm", "done"} =>
        LET n == gen.requested
            hi == IF gen.kind = "text" THEN 5 ELSE 3
            c == IF n < 1 THEN 1 ELSE IF n > hi THEN hi ELSE n
        IN  /\ gen.variant_count = c
            /\ gen.prompt.count = c
            /\ gen.prompt.template = "block" => Len(gen.prompt.directions) = c
            /\ gen.prompt.template = "slide" => gen.prompt.generate = c

C10_Witness ==
    /\ gen.pc = "llm" /\ gen.kind = "text"
    /\ gen.requested = 0 /\ gen.prompt.count = 1

\* C11: generate_layout_variants truncates to the requested count: for a
\* model response with k variants and a requested count n the call returns
\* the first min(k, c) variants of the response, in the response's order,
\* where c is n brought into [1, 3]; it never returns more than c.
C11_LayoutTruncated ==
    (gen.pc = "done" /\ gen.kind = "layout"
        /\ gen.response.kind = "variants") =>
        LET n == gen.requested
            c == IF n < 1 THEN 1 ELSE IF n > 3 THEN 3 ELSE n
            k == gen.response.k
            v == gen.result.variants
        IN  /\ gen.result.status = 200
            /\ Len(v) <= c
            /\ Len(v) = IF k < c THEN k ELSE c
            /\ \A i \in 1..Len(v) : v[i] = i

C11_Witness ==
    /\ gen.pc = "done" /\ gen.kind = "layout"
    /\ gen.requested = 2 /\ gen.response.kind = "variants"
    /\ gen.response.k = 5 /\ gen.result.variants = <<1, 2>>

\* C12: generate_text_variants truncates to the requested count: a
\* successful call returns at most c variants, where c is the requested
\* count brought into [1, 5] (a request for 2 never returns 3 or more).
C12_TextTruncated ==
    (gen.pc = "done" /\ gen.kind = "text" /\ gen.result.status = 200) =>
        LET n == gen.requested
            c == IF n < 1 THEN 1 ELSE IF n > 5 THEN 5 ELSE n
        IN  Len(gen.result.variants) <= c

\* C13: variant generation is all-or-nothing per call: when the
\* structured-generation call fails, or its response does not parse or
\* validate, the call ends with the generation-failed error (500) carrying
\* the original message and returns no variant; no result holds both an
\* error and a list of variants.
C13_AllOrNothing ==
    gen.pc = "done" =>
        LET reply == gen.response
            res == gen.result
            failure == \/ reply.kind # "variants"
                       \/ gen.kind = "text" /\ (reply.k < 1 \/ reply.k > 5)
        IN  /\ failure =>
                /\ res.status = 500
                /\ "variants" \notin DOMAIN res
                /\ res.detail[1] = IF gen.kind = "text"
                                   THEN "Failed to generate text variants"
                                   ELSE "Failed to generate layout variants"
                /\ res.detail[2] = IF reply.kind = "raise"
                                   THEN "generation error"
                                   ELSE "validation error"
            /\ "variants" \in DOMAIN res =>
                res.status = 200 /\ "detail" \notin DOMAIN res
            /\ ~failure => res.status = 200

C13_Witness ==
    /\ gen.pc = "done" /\ gen.kind = "layout"
    /\ gen.response.kind = "raise"
    /\ gen.result.status = 500
    /\ gen.result.detail[2] = "generation error"

\* C19: every successful call of generate_text_variants returns between 1
\* and 5 strings; a model response whose list of variants is empty or has
\* more than 5 entries ends in the generation-failed error, never in a
\* success.
C19_TextBetweenOneAndFive ==
    (gen.pc = "done" /\ gen.kind = "text") =>
        /\ gen.result.status = 200 =>
            /\ Len(gen.result.variants) >= 1
            /\ Len(gen.result.variants) <= 5
        /\ (gen.response.kind = "variants"
                /\ (gen.response.k = 0 \/ gen.response.k > 5)) =>
            /\ gen.result.status = 500
            /\ gen.result.detail[1] = "Failed to generate text variants"

C19_Witness ==
    /\ gen.pc = "done" /\ gen.kind = "text"
    /\ gen.response.kind = "variants" /\ gen.response.k = 6
    /\ gen.result.status = 500

\* Suggestions that propose two columns, and suggestions that propose three
\* or more columns or another multi-column arrangement.
TwoColumnSuggestions ==
    {"Balanced 2-column grid if 4-6 items", "2-column grid layout"}

MultiColumnSuggestions ==
    {"Creative beautiful layout: timeline OR masonry OR bento"}

\* C17: the design directions get_user_prompt writes for a list-container
\* depend on available_width: below 300 every direction taken from the
\* suggestions is a vertical list (no grid, no columns); from 300 to 599
\* they are vertical lists and a 2-column grid; a multi-column suggestion
\* appears only from 600 on.
C17_SuggestionsFollowWidth ==
    (gen.pc \in {"llm", "done"} /\ gen.kind = "layout"
        /\ gen.scope = "block" /\ gen.block_type = "list-container") =>
        LET d == gen.prompt.directions
            w == gen.available_width
        IN  \A i \in 1..Len(d) :
                /\ w < 300 => d[i] \notin TwoColumnSuggestions
                /\ w < 600 => d[i] \notin MultiColumnSuggestions

----------------------------------------------------------------------------
(* generate_static_variants.  Text is a sequence of characters, so that   *)
(* the regular expressions and the string operations of the function are  *)
(* computed on what they read.                                            *)

\* \w of the regular expressions (the inputs hold no upper-case letters).
WordChars ==
    {"a", "b", "c", "d", "e", "f", "g", "h", "i", "j", "k", "l", "m",
     "n", "o", "p", "q", "r", "s", "t", "u", "v", "w", "x", "y", "z",
     "0", "1", "2", "3", "4", "5", "6", "7", "8", "9", "_"}

\* The characters str.split() and str.strip() take as white space.
Whitespace == {" ", "\n"}

\* ["\'] of the class pattern.
Quotes == {"\"", "'"}

\* s[i:] starts with t (positions count from 1).
StartsAt(s, t, i) ==
    /\ i >= 1 /\ i + Len(t) - 1 <= Len(s)
    /\ \A k \in 1..Len(t) : s[i + k - 1] = t[k]

\* t in s
Contains(s, t) == \E i \in 1..(Len(s) - Len(t) + 1) : StartsAt(s, t, i)

\* The last position of the longest run of word characters that starts at
\* position i (i - 1 when there is none).
WordRunEnd(s, i) ==
    CHOOSE e \in (i - 1)..Len(s) :
        /\ \A k \in i..e : s[k] \in WordChars
        /\ e = Len(s) \/ s[e + 1] \notin WordChars

\* The first position of the longest run of word characters that ends at
\* position z (z + 1 when there is none).
WordRunStart(s, z) ==
    CHOOSE b \in 1..(z + 1) :
        /\ \A k \in b..z : s[k] \in WordChars
        /\ b = 1 \/ s[b - 1] \notin WordChars

\* The least element of a non-empty set of positions.
First(positions) == CHOOSE i \in positions : \A j \in positions : i <= j

\* re.search(r'^<(\w+)([^>]*)>', html, re.DOTALL): the text must start
\* with '<' and a word character, and hold a '>' further on; the name is
\* the run of word characters, the attributes reach to the first '>'.
TagMatch(html) ==
    IF Len(html) >= 2 /\ html[1] = "<" /\ html[2] \in WordChars
          /\ \E g \in 3..Len(html) : html[g] = ">"
    THEN LET e == WordRunEnd(html, 2)
             g == First({i \in 3..Len(html) : html[i] = ">"})
         IN  [matched |-> TRUE,
              tag_name |-> SubSeq(html, 2, e),
              tag_attrs |-> SubSeq(html, e + 1, g - 1),
              close |-> g]
    ELSE [matched |-> FALSE, tag_name |-> <<>>, tag_attrs |-> <<>>,
          close |-> 0]

\* 'class='
ClassEquals ==
    <<"c", "l", "a", "s", "s", "=">>


\* The pattern class=["\']([^"\']*)["\'] matches at position i of attrs.
ClassAt(attrs, i) ==
    /\ StartsAt(attrs, ClassEquals, i)
    /\ i + 6 <= Len(attrs) /\ attrs[i + 6] \in Quotes
    /\ \E q \in (i + 7)..Len(attrs) : attrs[q] \in Quotes

\* re.search(r'class=["\']([^"\']*)["\']', tag_attrs): the leftmost match;
\* the value runs to the next quote of either kind.
ClassMatch(attrs) ==
    IF \E i \in 1..Len(attrs) : ClassAt(attrs, i)
    THEN LET i == First({j \in 1..Len(attrs) : ClassAt(attrs, j)})
             q == First({j \in (i + 7)..Len(attrs) : attrs[j] \in Quotes})
         IN  [matched |-> TRUE, from |-> i, to |-> q,
              value |-> SubSeq(attrs, i + 7, q - 1)]
    ELSE [matched |-> FALSE, from |-> 0, to |-> 0, value |-> <<>>]

\* str.split(): the runs of characters that are not white space.
RECURSIVE Split(_)
Split(s) ==
    IF s = <<>> THEN <<>>
    ELSE IF s[1] \in Whitespace THEN Split(Tail(s))
    ELSE LET e == First({j \in 1..Len(s) :
                            j = Len(s) \/ s[j + 1] \in Whitespace})
         IN  <<SubSeq(s, 1, e)>> \o Split(SubSeq(s, e + 1, Len(s)))

\* ' '.join(words)
RECURSIVE Join(_)
Join(words) ==
    IF words = <<>> THEN <<>>
    ELSE IF Len(words) = 1 THEN words[1]
    ELSE words[1] \o <<" ">> \o Join(Tail(words))

\* str.strip()
RECURSIVE Strip(_)
Strip(s) ==
    IF s = <<>> THEN <<>>
    ELSE IF s[1] \in Whitespace THEN Strip(Tail(s))
    ELSE IF s[Len(s)] \in Whitespace THEN Strip(SubSeq(s, 1, Len(s) - 1))
    ELSE s

\* current_classes
CurrentClasses(tag_attrs) ==
    IF ClassMatch(tag_attrs).matched
    THEN Split(ClassMatch(tag_attrs).value) ELSE <<>>

\* The layout keywords: flex, grid, space-y, space-x, gap-, cols-
LayoutKeywords ==
    {<<"f", "l", "e", "x">>,
     <<"g", "r", "i", "d">>,
     <<"s", "p", "a", "c", "e", "-", "y">>,
     <<"s", "p", "a", "c", "e", "-", "x">>,
     <<"g", "a", "p", "-">>,
     <<"c", "o", "l", "s", "-">>}


BaseClassesExact(current_classes) ==
    SelectSeq(current_classes, LAMBDA c : c \notin LayoutKeywords)

\* base_classes: the classes that hold no layout keyword.
BaseClasses(current_classes) ==
    SelectSeq(current_classes,
              LAMBDA c : ~ \E keyword \in LayoutKeywords : Contains(c, keyword))

\* re.search(r'^<\w+[^>]*>(.*)</\w+>$', html, re.DOTALL): the text between
\* the opening tag and a closing tag (of any name) that ends the text, or
\* ends it but for one last newline; '' when the pattern does not match.
InnerContent(html) ==
    LET m == TagMatch(html)
        n == Len(html)
        z == IF n >= 1 /\ html[n] = ">" THEN n
             ELSE IF n >= 2 /\ html[n] = "\n" /\ html[n - 1] = ">" THEN n - 1
             ELSE 0
        b == WordRunStart(html, z - 1)
    IN  IF m.matched /\ z > m.close /\ b <= z - 1 /\ b - 2 > m.close
           /\ html[b - 1] = "/" /\ html[b - 2] = "<"
        THEN SubSeq(html, m.close + 1, b - 3)
        ELSE <<>>

\* re.sub(r'class=["\']([^"\']*)["\']', '', tag_attrs)
RECURSIVE WithoutClass(_)
WithoutClass(attrs) ==
    LET m == ClassMatch(attrs)
    IN  IF m.matched
        THEN SubSeq(attrs, 1, m.from - 1)
                \o WithoutClass(SubSeq(attrs, m.to + 1, Len(attrs)))
        ELSE attrs

\* other_attrs
OtherAttrs(tag_attrs) == Strip(WithoutClass(tag_attrs))

\* build_html_with_classes; element holds the tag_name, other_attrs and
\* inner_content of the enclosing call.
BuildHtmlWithClasses(element, new_classes, extra_style) ==
    LET tag_name == element.tag_name
        other_attrs == element.other_attrs
        inner_content == element.inner_content
        class_str == Join(new_classes)
        style == IF extra_style = <<>> THEN <<>>
                 ELSE <<" ", "s", "t", "y", "l", "e", "=", "\"">>
                        \o extra_style \o <<"\"">>
        others == IF other_attrs = <<>> THEN <<>> ELSE <<" ">> \o other_attrs
        new_opening ==
            <<"<">> \o tag_name
              \o <<" ", "c", "l", "a", "s", "s", "=", "\"">> \o class_str
              \o <<"\"">> \o style \o others \o <<">">>
    IN  new_opening \o inner_content \o <<"<", "/">> \o tag_name \o <<">">>

\* '<div class="border-4 border-blue-500 rounded-lg p-6 bg-blue-50
\* shadow-xl"><div class="'
CardOpen ==
    <<"<", "d", "i", "v", " ", "c", "l", "a", "s", "s", "=", "\"", "b", "o",
      "r", "d", "e", "r", "-", "4", " ", "b", "o", "r", "d", "e", "r", "-",
      "b", "l", "u", "e", "-", "5", "0", "0", " ", "r", "o", "u", "n", "d",
      "e", "d", "-", "l", "g", " ", "p", "-", "6", " ", "b", "g", "-", "b",
      "l", "u", "e", "-", "5", "0", " ", "s", "h", "a", "d", "o", "w", "-",
      "x", "l", "\"", ">", "<", "d", "i", "v", " ", "c", "l", "a", "s", "s",
      "=", "\"">>

\* '">'
CardMiddle ==
    <<"\"", ">">>

\* '</div></div>'
CardClose ==
    <<"<", "/", "d", "i", "v", ">", "<", "/", "d", "i", "v", ">">>

\* 'grid-template-columns: repeat(auto-fit, minmax(150px, 1fr));'
AutoFitStyle ==
    <<"g", "r", "i", "d", "-", "t", "e", "m", "p", "l", "a", "t", "e", "-",
      "c", "o", "l", "u", "m", "n", "s", ":", " ", "r", "e", "p", "e", "a",
      "t", "(", "a", "u", "t", "o", "-", "f", "i", "t", ",", " ", "m", "i",
      "n", "m", "a", "x", "(", "1", "5", "0", "p", "x", ",", " ", "1", "f",
      "r", ")", ")", ";">>

\* 'space-y'
SpaceY ==
    <<"s", "p", "a", "c", "e", "-", "y">>

\* 'grid'
Grid ==
    <<"g", "r", "i", "d">>

\* ['space-y-6']
SpaceY6 ==
    <<<<"s", "p", "a", "c", "e", "-", "y", "-", "6">>>>

\* ['grid', 'grid-cols-2', 'gap-4']
Grid2Gap4 ==
    <<<<"g", "r", "i", "d">>,
      <<"g", "r", "i", "d", "-", "c", "o", "l", "s", "-", "2">>,
      <<"g", "a", "p", "-", "4">>>>

\* ['grid', 'grid-cols-3', 'gap-6']
Grid3Gap6 ==
    <<<<"g", "r", "i", "d">>,
      <<"g", "r", "i", "d", "-", "c", "o", "l", "s", "-", "3">>,
      <<"g", "a", "p", "-", "6">>>>

\* ['flex', 'flex-row', 'gap-4', 'flex-wrap']
FlexRowGap4 ==
    <<<<"f", "l", "e", "x">>,
      <<"f", "l", "e", "x", "-", "r", "o", "w">>,
      <<"g", "a", "p", "-", "4">>,
      <<"f", "l", "e", "x", "-", "w", "r", "a", "p">>>>

\* ['grid', 'grid-cols-4', 'gap-4']
Grid4Gap4 ==
    <<<<"g", "r", "i", "d">>,
      <<"g", "r", "i", "d", "-", "c", "o", "l", "s", "-", "4">>,
      <<"g", "a", "p", "-", "4">>>>

\* ['grid', 'gap-4']
GridGap4 ==
    <<<<"g", "r", "i", "d">>,
      <<"g", "a", "p", "-", "4">>>>

\* ['flex', 'flex-col', 'gap-4']
FlexColGap4 ==
    <<<<"f", "l", "e", "x">>,
      <<"f", "l", "e", "x", "-", "c", "o", "l">>,
      <<"g", "a", "p", "-", "4">>>>

\* ['flex', 'flex-row', 'gap-6', 'flex-wrap']
FlexRowGap6 ==
    <<<<"f", "l", "e", "x">>,
      <<"f", "l", "e", "x", "-", "r", "o", "w">>,
      <<"g", "a", "p", "-", "6">>,
      <<"f", "l", "e", "x", "-", "w", "r", "a", "p">>>>

\* ['grid', 'grid-cols-2', 'gap-6']
Grid2Gap6 ==
    <<<<"g", "r", "i", "d">>,
      <<"g", "r", "i", "d", "-", "c", "o", "l", "s", "-", "2">>,
      <<"g", "a", "p", "-", "6">>>>

\* A LayoutVariant (the description, a fixed text per title, is left out).
LayoutVariant(title, html) == [title |-> title, html |-> html]

\* The single variant that echoes the input.
OriginalLayout(html) == <<LayoutVariant("Original Layout", html)>>

\* A list with its item, or empty: an append under a condition.
When(condition, variant) == IF condition THEN <<variant>> ELSE <<>>

\* The family of a list-container and of a block with a space-y class.
ListVariants(element, base_classes, available_width) ==
    <<LayoutVariant("DRAMATIC: Card Layout",
                    CardOpen \o Join(base_classes \o SpaceY6) \o CardMiddle
                      \o element.inner_content \o CardClose)>>
      \o When(available_width >= 300,
              LayoutVariant("2-Column Grid",
                            BuildHtmlWithClasses(element, base_classes \o Grid2Gap4, <<>>)))
      \o <<IF available_width >= 600
           THEN LayoutVariant("3-Column Grid",
                              BuildHtmlWithClasses(element, base_classes \o Grid3Gap6, <<>>))
           ELSE LayoutVariant("Horizontal Flex Row",
                              BuildHtmlWithClasses(element, base_classes \o FlexRowGap4, <<>>))>>

\* The family of a grid-container and of a block with a grid class.
GridVariants(element, base_classes, available_width) ==
    <<LayoutVariant("2-Column Grid", BuildHtmlWithClasses(element, base_classes \o Grid2Gap4, <<>>))>>
      \o When(available_width >= 600,
              LayoutVariant("3-Column Grid",
                            BuildHtmlWithClasses(element, base_classes \o Grid3Gap6, <<>>)))
      \o <<IF available_width >= 800
           THEN LayoutVariant("4-Column Grid",
                              BuildHtmlWithClasses(element, base_classes \o Grid4Gap4, <<>>))
           ELSE LayoutVariant("Auto-Fit Grid",
                              BuildHtmlWithClasses(element, base_classes \o GridGap4, AutoFitStyle))>>

\* The family of every other block.
GenericVariants(element, base_classes, available_width) ==
    <<LayoutVariant("Vertical Stack", BuildHtmlWithClasses(element, base_classes \o FlexColGap4, <<>>))>>
      \o When(available_width >= 400,
              LayoutVariant("Horizontal Flow",
                            BuildHtmlWithClasses(element, base_classes \o FlexRowGap6, <<>>)))
      \o When(available_width >= 500,
              LayoutVariant("Grid Layout",
                            BuildHtmlWithClasses(element, base_classes \o Grid2Gap6, <<>>)))

\* variants[:variant_count]: a negative count leaves that many off the end.
SliceTo(variants, variant_count) ==
    IF variant_count >= 0
    THEN SubSeq(variants, 1, Min(variant_count, Len(variants)))
    ELSE SubSeq(variants, 1, Max(0, Len(variants) + variant_count))

\* generate_static_variants
GenerateStaticVariants(html, block_type, available_width, variant_count) ==
    LET tag_match == TagMatch(html)
        tag_name == tag_match.tag_name
        tag_attrs == tag_match.tag_attrs
        current_classes == CurrentClasses(tag_attrs)
        base_classes == BaseClasses(current_classes)
        inner_content == InnerContent(html)
        other_attrs == OtherAttrs(tag_attrs)
        element == [tag_name |-> tag_name, other_attrs |-> other_attrs,
                    inner_content |-> inner_content]
        variants ==
            IF block_type = "list-container"
                  \/ Contains(Join(current_classes), SpaceY)
            THEN ListVariants(element, base_classes, available_width)
            ELSE IF block_type = "grid-container"
                  \/ Contains(Join(current_classes), Grid)
            THEN GridVariants(element, base_classes, available_width)
            ELSE GenericVariants(element, base_classes, available_width)
    IN  IF ~tag_match.matched THEN OriginalLayout(html)
        ELSE SliceTo(IF variants = <<>> THEN OriginalLayout(html)
                     ELSE variants,
                     variant_count)

----------------------------------------------------------------------------
(* The blocks generate_static_variants is called with.  An element is     *)
(* written '<' tag attributes '>' inner '</' tag '>'; with each choice of *)
(* attributes go the classes that hold no layout keyword (kept) and the   *)
(* attributes other than class (others), as they are written.             *)

\* div, ul
Tags ==
    {<<"d", "i", "v">>,
     <<"u", "l">>}

\* The attribute strings: none, and
\*   class="space-y-4 text-sm"
\*   class="text-sm"
\*   id="k" class="grid grid-cols-3 gap-2 p-4"
\*   class='flex items-center' data-textpath="t"
\*   data-textpath="t"
\*   id="k" class="p-4  md:flex-row text-sm" style="w"
AttrChoices ==
    {
    [text |->
        <<>>,
     kept |-> <<>>,
     others |-> <<>>],
    [text |->
        <<" ", "c", "l", "a", "s", "s", "=", "\"", "s", "p", "a", "c", "e",
          "-", "y", "-", "4", " ", "t", "e", "x", "t", "-", "s", "m", "\"">>,
     kept |-> <<<<"t", "e", "x", "t", "-", "s", "m">>>>,
     others |-> <<>>],
    [text |->
        <<" ", "c", "l", "a", "s", "s", "=", "\"", "t", "e", "x", "t", "-",
          "s", "m", "\"">>,
     kept |-> <<<<"t", "e", "x", "t", "-", "s", "m">>>>,
     others |-> <<>>],
    [text |->
        <<" ", "i", "d", "=", "\"", "k", "\"", " ", "c", "l", "a", "s", "s",
          "=", "\"", "g", "r", "i", "d", " ", "g", "r", "i", "d", "-", "c",
          "o", "l", "s", "-", "3", " ", "g", "a", "p", "-", "2", " ", "p",
          "-", "4", "\"">>,
     kept |-> <<<<"p", "-", "4">>>>,
     others |-> <<<<"i", "d", "=", "\"", "k", "\"">>>>],
    [text |->
        <<" ", "c", "l", "a", "s", "s", "=", "'", "f", "l", "e", "x", " ",
          "i", "t", "e", "m", "s", "-", "c", "e", "n", "t", "e", "r", "'",
          " ", "d", "a", "t", "a", "-", "t", "e", "x", "t", "p", "a", "t",
          "h", "=", "\"", "t", "\"">>,
     kept |-> <<<<"i", "t", "e", "m", "s", "-", "c", "e", "n", "t", "e", "r">>>>,
     others |-> <<<<"d", "a", "t", "a", "-", "t", "e", "x", "t", "p", "a", "t", "h", "=",
                   "\"", "t", "\"">>>>],
    [text |->
        <<" ", "d", "a", "t", "a", "-", "t", "e", "x", "t", "p", "a", "t",
          "h", "=", "\"", "t", "\"">>,
     kept |-> <<>>,
     others |-> <<<<"d", "a", "t", "a", "-", "t", "e", "x", "t", "p", "a", "t", "h", "=",
                   "\"", "t", "\"">>>>],
    [text |->
        <<" ", "i", "d", "=", "\"", "k", "\"", " ", "c", "l", "a", "s", "s",
          "=", "\"", "p", "-", "4", " ", " ", "m", "d", ":", "f", "l", "e",
          "x", "-", "r", "o", "w", " ", "t", "e", "x", "t", "-", "s", "m",
          "\"", " ", "s", "t", "y", "l", "e", "=", "\"", "w", "\"">>,
     kept |-> <<<<"p", "-", "4">>,
                 <<"t", "e", "x", "t", "-", "s", "m">>>>,
     others |-> <<<<"i", "d", "=", "\"", "k", "\"">>,
                   <<"s", "t", "y", "l", "e", "=", "\"", "w", "\"">>>>]
    }

\* '', '<span>x</span>', 'ab'
Inners ==
    {<<>>,
     <<"<", "s", "p", "a", "n", ">", "x", "<", "/", "s", "p", "a", "n", ">">>,
     <<"a", "b">>}

StaticInput(shape, tag, kept, others, inner, html) ==
    [shape |-> shape, tag |-> tag, kept |-> kept, others |-> others,
     inner |-> inner, html |-> html]

\* The single well-formed top-level elements.
Elements ==
    {StaticInput("element", tag, a.kept, a.others, inner,
                 <<"<">> \o tag \o a.text \o <<">">> \o inner
                    \o <<"<", "/">> \o tag \o <<">">>) :
        tag \in Tags, a \in AttrChoices, inner \in Inners}

\* Texts that are not one well-formed element, and an element followed by
\* a newline.
OtherInputs ==
    {
    \* ''
    StaticInput("empty", <<>>, <<>>, <<>>, <<>>,
        <<>>),
    \* ab
    StaticInput("text only", <<>>, <<>>, <<>>, <<>>,
        <<"a", "b">>),
    \*  <div class="text-sm">ab</div>
    StaticInput("space before tag", <<>>, <<>>, <<>>, <<>>,
        <<" ", "<", "d", "i", "v", " ", "c", "l", "a", "s", "s", "=", "\"",
          "t", "e", "x", "t", "-", "s", "m", "\"", ">", "a", "b", "<", "/",
          "d", "i", "v", ">">>),
    \* ab<div>x</div>
    StaticInput("text before tag", <<>>, <<>>, <<>>, <<>>,
        <<"a", "b", "<", "d", "i", "v", ">", "x", "<", "/", "d", "i", "v",
          ">">>),
    \* </div>
    StaticInput("closing tag only", <<>>, <<>>, <<>>, <<>>,
        <<"<", "/", "d", "i", "v", ">">>),
    \* <div>abc
    StaticInput("no closing tag", <<>>, <<>>, <<>>, <<>>,
        <<"<", "d", "i", "v", ">", "a", "b", "c">>),
    \* <div class="space-y-4 text-sm"><span>x</span>
    StaticInput("outer tag not closed", <<>>, <<>>, <<>>, <<>>,
        <<"<", "d", "i", "v", " ", "c", "l", "a", "s", "s", "=", "\"", "s",
          "p", "a", "c", "e", "-", "y", "-", "4", " ", "t", "e", "x", "t",
          "-", "s", "m", "\"", ">", "<", "s", "p", "a", "n", ">", "x", "<",
          "/", "s", "p", "a", "n", ">">>),
    \* <div>ab</ul>
    StaticInput("other closing tag", <<>>, <<>>, <<>>, <<>>,
        <<"<", "d", "i", "v", ">", "a", "b", "<", "/", "u", "l", ">">>),
    \* <div>a</div><ul>b</ul>
    StaticInput("two elements", <<>>, <<>>, <<>>, <<>>,
        <<"<", "d", "i", "v", ">", "a", "<", "/", "d", "i", "v", ">", "<",
          "u", "l", ">", "b", "<", "/", "u", "l", ">">>),
    \* <div class="text-sm">ab</div>\n
    StaticInput("trailing newline", <<>>, <<>>, <<>>, <<>>,
        <<"<", "d", "i", "v", " ", "c", "l", "a", "s", "s", "=", "\"", "t",
          "e", "x", "t", "-", "s", "m", "\"", ">", "a", "b", "<", "/", "d",
          "i", "v", ">", "\n">>)
    }

NotAnElement ==
    {"empty", "text only", "space before tag", "text before tag",
     "closing tag only", "no closing tag", "outer tag not closed",
     "other closing tag", "two elements"}

InitStatic ==
    /\ backend = [p \in PresIds |-> <<>>]
    /\ backend0 = backend
    /\ InitRequests({})
    /\ \E input \in Elements \cup OtherInputs, block_type \in BlockTypes,
          available_width \in Widths, variant_count \in Counts :
        gen = [pc |-> "static", input |-> input, block_type |-> block_type,
               available_width |-> available_width,
               variant_count |-> variant_count]

\* One call of generate_static_variants.
StaticCall ==
    /\ gen.pc = "static"
    /\ gen' = [gen EXCEPT !.pc = "returned"] @@
              [variants |-> GenerateStaticVariants(gen.input.html,
                                gen.block_type, gen.available_width,
                                gen.variant_count)]
    /\ UNCHANGED pvars

StaticNext == StaticCall

SpecStatic == InitStatic /\ [][StaticNext]_vars

\* 'grid grid-cols-2 gap-4'
TwoColumnClasses ==
    <<"g", "r", "i", "d", " ", "g", "r", "i", "d", "-", "c", "o", "l", "s",
      "-", "2", " ", "g", "a", "p", "-", "4">>

\* '<div class="text-sm grid grid-cols-2 gap-4"><span>x</span></div>'
ExampleTwoColumns ==
    <<"<", "d", "i", "v", " ", "c", "l", "a", "s", "s", "=", "\"", "t", "e",
      "x", "t", "-", "s", "m", " ", "g", "r", "i", "d", " ", "g", "r", "i",
      "d", "-", "c", "o", "l", "s", "-", "2", " ", "g", "a", "p", "-", "4",
      "\"", ">", "<", "s", "p", "a", "n", ">", "x", "<", "/", "s", "p", "a",
      "n", ">", "<", "/", "d", "i", "v", ">">>

\* '<div class="space-y-4 text-sm"><span>x</span></div>'
ExampleInput ==
    <<"<", "d", "i", "v", " ", "c", "l", "a", "s", "s", "=", "\"", "s", "p",
      "a", "c", "e", "-", "y", "-", "4", " ", "t", "e", "x", "t", "-", "s",
      "m", "\"", ">", "<", "s", "p", "a", "n", ">", "x", "<", "/", "s", "p",
      "a", "n", ">", "<", "/", "d", "i", "v", ">">>

\* s ends with t
EndsWith(s, t) == StartsAt(s, t, Len(s) - Len(t) + 1)

\* The opening tag of a text that starts with one: up to the first '>'.
OpeningTag(s) == SubSeq(s, 1, First({i \in 1..Len(s) : s[i] = ">"}))

\* C14: for an input that is not a single well-formed top-level element
\* generate_static_variants returns exactly one variant, titled 'Original
\* Layout', whose html is the input; so for an input that starts with an
\* opening tag and does not end with its closing tag ('<div>abc'), and for
\* an input with text or white space before the first tag.
C14_EchoesWhatIsNotAnElement ==
    (gen.pc = "returned" /\ gen.input.shape \in NotAnElement) =>
        gen.variants =
            <<[title |-> "Original Layout", html |-> gen.input.html]>>

\* C15: for block type 'list-container', available_width >= 300,
\* variant_count >= 2 and a well-formed single element, a returned variant
\* has as its outer class list the classes of the input that hold no
\* layout keyword, in their order, followed by 'grid grid-cols-2 gap-4',
\* and as its inner content the inner content of the input.
C15_TwoColumnVariant ==
    (gen.pc = "returned" /\ gen.input.shape = "element"
        /\ gen.block_type = "list-container"
        /\ gen.available_width >= 300 /\ gen.variant_count >= 2) =>
        LET in == gen.input
            classes == Join(in.kept)
                        \o (IF in.kept = <<>> THEN <<>> ELSE <<" ">>)
                        \o TwoColumnClasses
            opening == <<"<">> \o in.tag \o <<" ">> \o ClassEquals
                        \o <<"\"">> \o classes \o <<"\"">>
            rest == <<">">> \o in.inner \o <<"<", "/">> \o in.tag \o <<">">>
        IN  \E i \in 1..Len(gen.variants) :
                LET v == gen.variants[i].html
                IN  /\ StartsAt(v, opening, 1)
                    /\ v[Len(opening) + 1] \in {" ", ">"}
                    /\ EndsWith(v, rest)

C15_Witness ==
    /\ gen.pc = "returned" /\ gen.block_type = "list-container"
    /\ gen.available_width = 300 /\ gen.variant_count = 2
    /\ gen.input.html = ExampleInput
    /\ Len(gen.variants) = 2
    /\ gen.variants[2].html = ExampleTwoColumns

\* C16: every variant generate_static_variants returns for a well-formed
\* single element, in all three families, keeps the inner content, opens
\* and closes with the tag name of the input, and carries every attribute
\* of the input other than class as it was written.
C16_VariantsKeepTheElement ==
    (gen.pc = "returned" /\ gen.input.shape = "element") =>
        \A i \in 1..Len(gen.variants) :
            LET in == gen.input
                v == gen.variants[i].html
            IN  /\ StartsAt(v, <<"<">> \o in.tag, 1)
                /\ v[Len(in.tag) + 2] \in {" ", ">"}
                /\ EndsWith(v, <<">">> \o in.inner \o <<"<", "/">>
                                 \o in.tag \o <<">">>)
                /\ \A k \in 1..Len(in.others) :
                    Contains(OpeningTag(v), <<" ">> \o in.others[k])

----------------------------------------------------------------------------
(* get_slide_by_id.py: the command-line lookup.  It makes the same two    *)
(* kinds of GET as the proxy, one after the other, with no handler around *)
(* them: raise_for_status() raises out of the function.                   *)

\* What the function ends with: the slide, or an exception.
Returned(slide) == [status |-> "returned", slide |-> slide]
Raised(error) == [status |-> "raised", error |-> error]

CliStart(r) ==
    /\ pc[r] = "idle"
    /\ \E x \in SlideIds \cup {NoSuchSlide} :
        req' = [req EXCEPT ![r] = Request("lookup", x, "none", 0)]
    /\ pc' = [pc EXCEPT ![r] = "list"]
    /\ UNCHANGED <<backend, backend0, cursor, target, payload, resp, skipped,
                   patches, gen>>

\* requests.get(".../presentation/all") and raise_for_status()
CliList(r) ==
    /\ pc[r] = "list" /\ req[r].op = "lookup"
    /\ \E ok \in BOOLEAN :
        IF ok
        THEN /\ pc' = [pc EXCEPT ![r] = "scan"]
             /\ cursor' = [cursor EXCEPT ![r] = 1]
             /\ resp' = resp
        ELSE /\ Finish(r, Raised("HTTPError"))
             /\ cursor' = cursor
    /\ UNCHANGED <<backend, backend0, req, target, payload, skipped, patches, gen>>

\* A presentation fetch that fails: the exception leaves the loop and the
\* function (skipped records the presentation whose fetch failed).
CliFetchFailed(r) ==
    /\ skipped' = [skipped EXCEPT ![r] = @ \cup {PresList[cursor[r]]}]
    /\ Finish(r, Raised("HTTPError"))
    /\ cursor' = cursor

\* A fetched presentation without the slide: on to the next one, or
\* ValueError after the last.
CliScanOn(r) ==
    /\ skipped' = skipped
    /\ IF cursor[r] < Len(PresList)
       THEN /\ cursor' = [cursor EXCEPT ![r] = @ + 1]
            /\ UNCHANGED <<pc, resp>>
       ELSE /\ Finish(r, Raised("ValueError"))
            /\ cursor' = cursor

\* One pass of the loop over the presentations.
CliScan(r) ==
    /\ pc[r] = "scan" /\ req[r].op = "lookup"
    /\ LET p == PresList[cursor[r]]
           x == req[r].slide_id
       IN  \E ok \in BOOLEAN :
            IF ~ok THEN CliFetchFailed(r)
            ELSE IF FirstIndex(backend[p], x) >= 0
            THEN /\ Finish(r, Returned(FoundSlide(backend[p], x)))
                 /\ UNCHANGED <<cursor, skipped>>
            ELSE CliScanOn(r)
    /\ UNCHANGED <<backend, backend0, req, target, payload, patches, gen>>

CliNext == \E r \in Reqs : CliStart(r) \/ CliList(r) \/ CliScan(r)

SpecCli == Init /\ [][CliNext]_vars

\* C23: the command-line get_slide_by_id is a best-effort scan: a
\* presentation whose fetch fails is skipped and the scan goes on, so a
\* slide held by a later presentation is still returned, and a slide id
\* that no presentation holds ends with ValueError, not with the fetch
\* error.
C23_CliBestEffort ==
    \A r \in Reqs :
        (pc[r] = "done" /\ req[r].op = "lookup" /\ cursor[r] >= 1) =>
            LET x == req[r].slide_id
            IN  /\ resp[r] # Raised("HTTPError")
                /\ Absent(x) => resp[r] = Raised("ValueError")
                /\ (\E i \in 1..Len(PresList) :
                        /\ PresList[i] \notin skipped[r]
                        /\ x \in Ids(backend[PresList[i]])
                        /\ \A h \in 1..(i - 1) : PresList[h] \in skipped[r])
                    => resp[r].status = "returned"

\* 'grid-cols-'
GridColsDash ==
    <<"g", "r", "i", "d", "-", "c", "o", "l", "s", "-">>

\* The class grid-cols-c, for c in 2..4.
GridCols(c) == GridColsDash \o <<<<"2", "3", "4">>[c - 1]>>

\* C24: in every family of generate_static_variants the multi-column
\* variants follow the width thresholds of the prompt builder: a 2-column
\* grid only for available_width >= 300, a 3-column grid only for
\* available_width >= 600, and never more columns than
\* min(3, available_width // 150).
C24_ColumnsFollowWidth ==
    (gen.pc = "returned" /\ gen.input.shape = "element") =>
        \A i \in 1..Len(gen.variants) : \A c \in 2..4 :
            Contains(OpeningTag(gen.variants[i].html), GridCols(c)) =>
                LET w == gen.available_width
                    ceiling == IF w \div 150 < 3 THEN w \div 150 ELSE 3
                IN  /\ c = 2 => w >= 300
                    /\ c = 3 => w >= 600
                    /\ c <= ceiling

\* C25: generate_static_variants returns at least one and at most three
\* variants and never more than variant_count, for every html, block_type,
\* available_width and every integer variant_count, also 0 and negative
\* ones.
C25_OneToThreeVariants ==
    gen.pc = "returned" =>
        /\ Len(gen.variants) >= 1
        /\ Len(gen.variants) <= 3
        /\ Len(gen.variants) <= gen.variant_count

\* C26: when one layout variant is asked for, the design directions of the
\* block prompt are one entry, the third (most creative) suggestion of the
\* block type and not the first, for every block type, known or not; for
\* a count of 2 or 3 they are that many entries, the first suggestions of
\* the block type in order.
C26_OneVariantTakesTheThird ==
    (gen.pc \in {"llm", "done"} /\ gen.kind = "layout"
        /\ gen.scope = "block") =>
        LET c == gen.variant_count
            d == gen.prompt.directions
            all == LayoutSuggestions(gen.block_type)
        IN  /\ c = 1 => d = <<all[3]>> /\ d # <<all[1]>>
            /\ c \in {2, 3} =>
                Len(d) = c /\ \A i \in 1..c : d[i] = all[i]
            /\ c \in 1..3

C26_Witness ==
    /\ gen.pc = "llm" /\ gen.kind = "layout" /\ gen.scope = "block"
    /\ gen.block_type = "other" /\ gen.requested = 1
    /\ gen.prompt.directions = <<"FREESTYLE BEAUTIFUL">>

====
